---- MODULE Spec2Model ----
(***************************************************************************)
(* A model of the two-phase assembler of src/assembler.cpp: the lexer      *)
(* (skip_blank, skip_word, get_word), the numeric literal parser           *)
(* (parse_num), label resolution (parse_constant), the register parser     *)
(* (parse_reg), the instruction encoder (parse_instruction) and the driver *)
(* (main: phase 1 over the token stream, phase 2 over the recorded         *)
(* instructions, then the output file).                                    *)
(*                                                                         *)
(* Text is modelled character by character.  A character is a string of    *)
(* length one, the terminating NUL is the empty string, and a SubString is *)
(* a record [data, len] that points into the buffer buf, as in the source. *)
(***************************************************************************)
EXTENDS Integers, Sequences, FiniteSets, TLC

VARIABLES
    input_file,     \* the bytes of the input file (argv[1])
    buf,            \* input_file_buf: the bytes main scans, up to the first NUL
    file_pos,       \* main's cursor into buf (1-based; Len(buf)+1 is the NUL)
    in_comment,     \* main's in_comment flag
    next_addr,      \* main's next_addr cursor
    labels,         \* Array<Label, MAX_LABELS>: sequence of [name, addr]
    instructions,   \* Array<Instr, MAX_INSTR>: sequence of [addr, op, args]
    i,              \* the loop index of phase 2
    rom_data,       \* rom_data, as the bytes phase 2 has stored, by index; a byte
                    \* that is not in the domain holds the 0 of line 541
    oob,            \* indices outside rom_data that phase 2 stored to
    pc,             \* where the process is, or was when it ended
    status,         \* "running", or how the process ended: "exit0" (main
                    \* returned), "exit1" (asm_assert called exit(1)), "abort"
                    \* (an assert failed), "crash"
    err,            \* the message asm_assert printed, "" if none
    line_num,       \* the global line_num
    words,          \* history: the word parse_instruction returned for each
                    \* instruction phase 2 has encoded, in order
    output,         \* the lines written to the output file, <<>> if unopened
    call,           \* the arguments of a single function under test
    ret             \* its result

vars == <<input_file, buf, file_pos, in_comment, next_addr, labels,
          instructions, i, rom_data, oob, pc, status, err, line_num,
          words, output, call, ret>>

-----------------------------------------------------------------------------
(* Program constants                                                       *)

ROM_SIZE == 1024
MAX_INSTR == 512
MAX_LABELS == 512
MAX_ARGS == 3
\* 0xFFFFFFFF: a 32-bit value is written as the signed value of its bit pattern
INVALID_OP == -1

(* Bounds of the model                                                     *)

\* the number of source lines of an input file
MaxLines == 3
\* literals of every value 0..MaxVal are tried by the parse_num harness
MaxVal == 17

-----------------------------------------------------------------------------
(* Characters                                                              *)

NUL == ""

\* runs of consecutive ASCII characters, each with the code of its first one
AsciiRuns ==
    << [first |-> 32, chars |-> " "],
       [first |-> 43, chars |-> "+,-./0123456789:;"],
       [first |-> 65, chars |-> "ABCDEFGHIJKLMNOPQRSTUVWXYZ"],
       [first |-> 97, chars |-> "abcdefghijklmnopqrstuvwxyz"] >>

\* the ASCII code of each character
Ascii ==
    [c \in {"\n", NUL} \cup
            UNION {{SubSeq(AsciiRuns[r].chars, k, k) : k \in 1..Len(AsciiRuns[r].chars)} :
                   r \in 1..Len(AsciiRuns)} |->
        IF c = NUL THEN 0
        ELSE IF c = "\n" THEN 10
        ELSE LET r == CHOOSE r \in 1..Len(AsciiRuns) :
                        \E k \in 1..Len(AsciiRuns[r].chars) : SubSeq(AsciiRuns[r].chars, k, k) = c
                 k == CHOOSE k \in 1..Len(AsciiRuns[r].chars) : SubSeq(AsciiRuns[r].chars, k, k) = c
             IN  AsciiRuns[r].first + k - 1]

Ord(c) == Ascii[c]

\* the character of an ASCII code
Chr(n) == CHOOSE c \in DOMAIN Ascii : Ascii[c] = n

\* c >= lo && c <= hi
InRange(c, lo, hi) == Ord(c) >= Ord(lo) /\ Ord(c) <= Ord(hi)

\* s[k] of a NUL-terminated C string, k from 0
CStrAt(s, k) == IF k < Len(s) THEN SubSeq(s, k + 1, k + 1) ELSE NUL

\* the byte at position p of the buffer; the buffer ends at its first NUL
CharAt(p) == IF p >= 1 /\ p <= Len(buf) THEN SubSeq(buf, p, p) ELSE NUL

Pow2(n) == 2 ^ n

(* A 32-bit quantity, int32_t or uint32_t, is the signed value of its bit  *)
(* pattern (0xFFFFFFFF is -1), so that & and | are those of two's          *)
(* complement.  The numbers the model's inputs produce stay far inside 32  *)
(* bits, where + - * of the two types agree with the integers'.            *)

\* C++ integer division: the quotient truncated toward zero
CDiv(a, b) ==
    IF (a >= 0) = (b > 0) THEN (IF a >= 0 THEN a ELSE 0 - a) \div (IF b > 0 THEN b ELSE 0 - b)
    ELSE 0 - ((IF a >= 0 THEN a ELSE 0 - a) \div (IF b > 0 THEN b ELSE 0 - b))

RECURSIVE BitOr(_, _)
\* a | b in two's complement
BitOr(a, b) ==
    IF a = 0 THEN b
    ELSE IF b = 0 THEN a
    ELSE IF a = -1 \/ b = -1 THEN -1
    ELSE (IF (a % 2 = 1) \/ (b % 2 = 1) THEN 1 ELSE 0) + 2 * BitOr(a \div 2, b \div 2)

RECURSIVE BitAnd(_, _)
\* a & b in two's complement
BitAnd(a, b) ==
    IF a = 0 \/ b = 0 THEN 0
    ELSE IF a = -1 THEN b
    ELSE IF b = -1 THEN a
    ELSE (IF (a % 2 = 1) /\ (b % 2 = 1) THEN 1 ELSE 0) + 2 * BitAnd(a \div 2, b \div 2)

\* ~a in two's complement
BitNot(a) == 0 - a - 1

-----------------------------------------------------------------------------
(* to_upper                                                                *)

ToUpperChar(c) == IF InRange(c, "a", "z") THEN Chr(Ord(c) - 32) ELSE c

RECURSIVE to_upper(_)
to_upper(s) ==
    IF Len(s) = 0 THEN ""
    ELSE ToUpperChar(SubSeq(s, 1, 1)) \o to_upper(SubSeq(s, 2, Len(s)))

-----------------------------------------------------------------------------
(* SubString                                                               *)

\* word[k]
At(word, k) == CharAt(word.data + k)

\* the characters a SubString views
Text(word) == SubSeq(buf, word.data, word.data + word.len - 1)

RECURSIVE EqCStrFrom(_, _, _)
EqCStrFrom(word, rhs, k) ==
    IF k < word.len
    THEN IF At(word, k) # CStrAt(rhs, k) THEN FALSE ELSE EqCStrFrom(word, rhs, k + 1)
    ELSE CStrAt(rhs, k) = NUL

\* SubString::operator==(const char*)
EqCStr(word, rhs) == EqCStrFrom(word, rhs, 0)

\* EqSub as a comparison of the views, not of the characters they view
EqSubSameView(a, b) == b.len = a.len /\ b.data = a.data

\* SubString::operator==(const SubString&)
EqSub(a, b) ==
    IF b.len # a.len THEN FALSE
    ELSE \A k \in 0..(a.len - 1) : At(a, k) = At(b, k)

-----------------------------------------------------------------------------
(* The lexer                                                               *)

IsWordChar(c) ==
    \/ c = "."
    \/ c = ":"
    \/ InRange(c, "A", "Z")
    \/ InRange(c, "0", "9")

RECURSIVE skip_blank(_)
\* the position of the start of the next word (a newline counts as a word)
skip_blank(p) ==
    IF CharAt(p) = NUL THEN p
    ELSE IF IsWordChar(CharAt(p)) \/ CharAt(p) = "\n" THEN p
    ELSE skip_blank(p + 1)

RECURSIVE SkipWordChars(_)
SkipWordChars(p) ==
    IF CharAt(p) = NUL THEN p
    ELSE IF ~IsWordChar(CharAt(p)) THEN p
    ELSE SkipWordChars(p + 1)

\* the position after the word that starts at p
skip_word(p) == IF CharAt(p) = "\n" THEN p + 1 ELSE SkipWordChars(p)

\* the word from start to stop, and the cursor after it
WordSpan(start, stop) == [word |-> [data |-> start, len |-> stop - start], pos |-> stop]

\* lines 241-248: the word that starts at start
WordFrom(start) == WordSpan(start, skip_word(start))

\* the next word and the cursor after it
get_word(p) == WordFrom(skip_blank(p))

is_label(word) == IF word.len = 0 THEN FALSE ELSE At(word, word.len - 1) = ":"

is_comment(word) == IF word.len = 0 THEN FALSE ELSE At(word, 0) = ";"

-----------------------------------------------------------------------------
(* asm_assert: a failed condition prints the message and exits.  A function *)
(* that may call it returns [fatal, msg, val]: fatal with the message, or   *)
(* the value it returns.                                                    *)

Fatal(m) == [fatal |-> TRUE, msg |-> m, val |-> 0]

Value(v) == [fatal |-> FALSE, msg |-> "", val |-> v]

-----------------------------------------------------------------------------
(* strtoul of the C library, as parse_num calls it                          *)

IsSpace(c) == c = " " \/ c = "\n"

\* the value of a digit character, 99 if it is none
DigitVal(c) ==
    IF c = NUL THEN 99
    ELSE IF InRange(c, "0", "9") THEN Ord(c) - Ord("0")
    ELSE IF InRange(c, "A", "Z") THEN Ord(c) - Ord("A") + 10
    ELSE IF InRange(c, "a", "z") THEN Ord(c) - Ord("a") + 10
    ELSE 99

RECURSIVE StrtoulSpaces(_, _)
StrtoulSpaces(s, k) == IF IsSpace(CStrAt(s, k)) THEN StrtoulSpaces(s, k + 1) ELSE k

RECURSIVE StrtoulDigits(_, _, _, _)
\* the value of the longest run of digits of the base from s[k], after acc
StrtoulDigits(s, k, base, acc) ==
    IF DigitVal(CStrAt(s, k)) < base
    THEN StrtoulDigits(s, k + 1, base, acc * base + DigitVal(CStrAt(s, k)))
    ELSE acc

\* the value, negated after a '-'
StrtoulNegate(mag, neg) == IF neg THEN 0 - mag ELSE mag

\* whether the optional 0X of base 16 is at s[k]
StrtoulHasPrefix(s, k, base) ==
    /\ base = 16
    /\ CStrAt(s, k) = "0"
    /\ (CStrAt(s, k + 1) = "X" \/ CStrAt(s, k + 1) = "x")
    /\ DigitVal(CStrAt(s, k + 2)) < 16

\* the optional sign at s[k], the optional prefix, the digits
StrtoulSign(s, k, base) ==
    StrtoulNegate(
        StrtoulDigits(s,
                      IF StrtoulHasPrefix(s, IF CStrAt(s, k) = "-" \/ CStrAt(s, k) = "+"
                                             THEN k + 1 ELSE k, base)
                      THEN (IF CStrAt(s, k) = "-" \/ CStrAt(s, k) = "+" THEN k + 1 ELSE k) + 2
                      ELSE (IF CStrAt(s, k) = "-" \/ CStrAt(s, k) = "+" THEN k + 1 ELSE k),
                      base, 0),
        CStrAt(s, k) = "-")

\* (int32_t)strtoul(s, nullptr, base): blanks, an optional sign, an optional 0X
\* when the base is 16, then the longest run of digits.  The literals of the
\* model stay below 2^31, where the conversion to int32_t changes nothing.
strtoul(s, base) == StrtoulSign(s, StrtoulSpaces(s, 0), base)

-----------------------------------------------------------------------------
(* parse_num                                                               *)

\* 0xffffffff << bits, as a uint32_t
HighMask(bits) == (-1) * Pow2(bits)

\* whether the bits of `high` (a value masked by HighMask) are all 0 or all 1
AllSame(high, bits) == high = 0 \/ high = HighMask(bits)

\* FitsBits as a check of the signed range of `bits` bits: bit bits-1 is
\* counted among the bits that must agree
FitsBitsSigned(result, bits) == AllSame(BitAnd(result, HighMask(bits - 1)), bits - 1)

\* the asm_assert of lines 343-344 (and 368-369): the bits above the low `bits`
\* are all 0 or all 1
FitsBits(result, bits) == AllSame(BitAnd(result, HighMask(bits)), bits)

\* MaskBits without the mask
MaskBitsNone(result, bits) == result

\* result &= ~(0xffffffff << bits)
MaskBits(result, bits) == BitAnd(result, BitNot(HighMask(bits)))

\* lines 319-335: a digit of the base
ValidDigit(c, base) ==
    IF base = 10 THEN InRange(c, "0", "9")
    ELSE IF base = 16 THEN InRange(c, "0", "9") \/ InRange(c, "A", "F")
    ELSE c = "0" \/ c = "1"

\* what parse_num returns: [fatal, msg, val, valid]; valid is what *success
\* receives
NumFatal(m, valid_number) == [fatal |-> TRUE, msg |-> m, val |-> 0, valid |-> valid_number]

NumValue(v, valid_number) == [fatal |-> FALSE, msg |-> "", val |-> v, valid |-> valid_number]

\* lines 343-348: the range check and the mask
ParseNumRange(result, bits, valid_number) ==
    IF ~FitsBits(result, bits) THEN NumFatal("argument needs too many bits", valid_number)
    ELSE NumValue(MaskBits(result, bits), valid_number)

\* lines 340-341: the conversion and the sign
ParseNumConvert(parsed, negative, bits, valid_number) ==
    ParseNumRange(IF negative THEN 0 - parsed ELSE parsed, bits, valid_number)

\* lines 337-338: an invalid number is fatal only when success is nullptr
ParseNumValid(num_str, base, negative, bits, success_null, valid_number) ==
    IF success_null /\ ~valid_number THEN NumFatal("malformed constant", FALSE)
    ELSE ParseNumConvert(strtoul(Text(num_str), base), negative, bits, valid_number)

\* lines 317-335: every character is a digit of the base
ParseNumDigits(num_str, base, negative, bits, success_null) ==
    ParseNumValid(num_str, base, negative, bits, success_null,
                  \A k \in 0..(num_str.len - 1) : ValidDigit(At(num_str, k), base))

\* num_str.data += n; num_str.len -= n
Advance(num_str, n) == [data |-> num_str.data + n, len |-> num_str.len - n]

\* lines 297-315: the base, from the second character
BaseOf(num_str) ==
    IF num_str.len >= 2 /\ At(num_str, 1) = "X" THEN 16
    ELSE IF num_str.len >= 2 /\ At(num_str, 1) = "B" THEN 2
    ELSE 10

\* lines 303 and 310: before an X or a B the first character must be '0'
ParseNumPrefix(num_str, base, negative, bits, success_null) ==
    IF base # 10 /\ At(num_str, 0) # "0" THEN NumFatal("malformed constant", FALSE)
    ELSE ParseNumDigits(IF base # 10 THEN Advance(num_str, 2) ELSE num_str,
                        base, negative, bits, success_null)

ParseNumBase(num_str, negative, bits, success_null) ==
    ParseNumPrefix(num_str, BaseOf(num_str), negative, bits, success_null)

\* parse_num(num_str, bits, success): success_null says that success is
\* nullptr.  Lines 285-295: the sign.
parse_num(num_str, bits, success_null) ==
    ParseNumBase(IF At(num_str, 0) = "+" \/ At(num_str, 0) = "-"
                 THEN Advance(num_str, 1) ELSE num_str,
                 At(num_str, 0) = "-", bits, success_null)

-----------------------------------------------------------------------------
(* parse_constant                                                          *)

\* the labels whose name equals const_str, in table order
MatchingLabels(const_str, labs) ==
    SelectSeq(labs, LAMBDA lab : EqSub(const_str, lab.name))

\* Displacement with the quotient rounded down instead of toward zero
DisplacementFloor(label_addr, addr) == (label_addr - addr) \div 2

\* (labels[i].addr - addr) / 2 as int32_t
Displacement(label_addr, addr) == CDiv(label_addr - addr, 2)

\* lines 366-372 for one matching label: the displacement d, checked and masked
ResolveOne(d, bits) ==
    IF ~FitsBits(d, bits) THEN Fatal("argument needs too many bits")
    ELSE Value(MaskBits(d, bits))

RECURSIVE ResolveFrom(_, _, _, _)
\* the loop of lines 359-374 over the matching labels: each match replaces
\* result, and one that needs too many bits is fatal
ResolveFrom(matches, addr, bits, result) ==
    IF matches = <<>> THEN result
    ELSE IF result.fatal THEN result
    ELSE ResolveFrom(Tail(matches), addr, bits,
                     ResolveOne(Displacement(Head(matches).addr, addr), bits))

\* line 375: asm_assert(label_found, ...)
ResolveLabel(matches, addr, bits, result) ==
    IF matches = <<>> THEN Fatal("label not found")
    ELSE ResolveFrom(matches, addr, bits, Value(result))

\* lines 355-378, given what parse_num returned
ParseConstantWith(num, const_str, addr, labs, bits) ==
    IF num.fatal THEN Fatal(num.msg)
    ELSE IF num.valid THEN Value(num.val)
    ELSE ResolveLabel(MatchingLabels(const_str, labs), addr, bits, num.val)

parse_constant(const_str, addr, labs, bits) ==
    ParseConstantWith(parse_num(const_str, bits, FALSE), const_str, addr, labs, bits)

-----------------------------------------------------------------------------
(* parse_reg                                                               *)

parse_reg(reg_str) ==
    IF ~(reg_str.len = 2 /\ At(reg_str, 0) = "R") THEN Fatal("not a valid register")
    ELSE Value(Ord(At(reg_str, 1)) - Ord("0"))

-----------------------------------------------------------------------------
(* The opcode table                                                        *)

OP ==
    <<
       [mnemonic |-> "NOP", opcode |-> 0, format |-> "A0", upper |-> FALSE],
       [mnemonic |-> "ADD", opcode |-> 1, format |-> "A1", upper |-> FALSE],
       [mnemonic |-> "SUB", opcode |-> 2, format |-> "A1", upper |-> FALSE],
       [mnemonic |-> "MUL", opcode |-> 3, format |-> "A1", upper |-> FALSE],
       [mnemonic |-> "NAND", opcode |-> 4, format |-> "A1", upper |-> FALSE],
       [mnemonic |-> "SHL", opcode |-> 5, format |-> "A2", upper |-> FALSE],
       [mnemonic |-> "SHR", opcode |-> 6, format |-> "A2", upper |-> FALSE],
       [mnemonic |-> "TEST", opcode |-> 7, format |-> "A3", upper |-> FALSE],
       [mnemonic |-> "MUH", opcode |-> 8, format |-> "A1", upper |-> FALSE],
       [mnemonic |-> "OUT", opcode |-> 32, format |-> "A3", upper |-> FALSE],
       [mnemonic |-> "IN", opcode |-> 33, format |-> "A3", upper |-> FALSE],
       [mnemonic |-> "BRR", opcode |-> 64, format |-> "B1", upper |-> FALSE],
       [mnemonic |-> "BRR.N", opcode |-> 65, format |-> "B1", upper |-> FALSE],
       [mnemonic |-> "BRR.Z", opcode |-> 66, format |-> "B1", upper |-> FALSE],
       [mnemonic |-> "BRR.O", opcode |-> 73, format |-> "B1", upper |-> FALSE],
       [mnemonic |-> "BR", opcode |-> 67, format |-> "B2", upper |-> FALSE],
       [mnemonic |-> "BR.N", opcode |-> 68, format |-> "B2", upper |-> FALSE],
       [mnemonic |-> "BR.Z", opcode |-> 69, format |-> "B2", upper |-> FALSE],
       [mnemonic |-> "BR.O", opcode |-> 72, format |-> "B2", upper |-> FALSE],
       [mnemonic |-> "BR.SUB", opcode |-> 70, format |-> "B2", upper |-> FALSE],
       [mnemonic |-> "RETURN", opcode |-> 71, format |-> "A0", upper |-> FALSE],
       [mnemonic |-> "LOAD", opcode |-> 16, format |-> "L2", upper |-> FALSE],
       [mnemonic |-> "STORE", opcode |-> 17, format |-> "L2", upper |-> FALSE],
       [mnemonic |-> "LOADIMM.LOWER", opcode |-> 18, format |-> "L1", upper |-> FALSE],
       [mnemonic |-> "LOADIMM.UPPER", opcode |-> 18, format |-> "L1", upper |-> TRUE],
       [mnemonic |-> "MOV", opcode |-> 19, format |-> "L2", upper |-> FALSE]
    >>

NUM_OPCODES == Len(OP)

RECURSIVE LookupFrom(_, _)
LookupFrom(word, k) ==
    IF k < NUM_OPCODES
    THEN IF EqCStr(word, OP[k + 1].mnemonic) THEN k ELSE LookupFrom(word, k + 1)
    ELSE INVALID_OP

\* the index (from 0) of the first table entry with this mnemonic
lookup_op(word) == LookupFrom(word, 0)

-----------------------------------------------------------------------------
(* parse_instruction                                                       *)

\* x << n of a uint32_t that a parser returned
Shl(r, n) == IF r.fatal THEN r ELSE Value(r.val * Pow2(n))

RECURSIVE OrFields(_, _)
\* instr |= field, for each field in turn, in a uint16_t; the first field whose
\* parser failed ends the encoding
OrFields(instr, fields) ==
    IF fields = <<>> THEN Value(instr)
    ELSE IF Head(fields).fatal THEN Head(fields)
    ELSE OrFields(BitOr(instr, Head(fields).val) % Pow2(16), Tail(fields))

\* the asm_assert on args.size, then the fields in the order the code parses them
EncodeFormat(op, args, labs, addr, instr) ==
    IF op.format = "A0"
    THEN IF Len(args) # 0 THEN Fatal("too many args")
         ELSE Value(instr)
    ELSE IF op.format = "A1"
    THEN IF Len(args) # 3 THEN Fatal("too many args")
         ELSE OrFields(instr, << Shl(parse_reg(args[1]), 6),
                                 Shl(parse_reg(args[2]), 3),
                                 parse_reg(args[3]) >>)
    ELSE IF op.format = "A2"
    THEN IF Len(args) # 2 THEN Fatal("too many args")
         ELSE OrFields(instr, << Shl(parse_reg(args[1]), 6),
                                 parse_num(args[2], 4, TRUE) >>)
    ELSE IF op.format = "A3"
    THEN IF Len(args) # 1 THEN Fatal("too many args")
         ELSE OrFields(instr, << Shl(parse_reg(args[1]), 6) >>)
    ELSE IF op.format = "B1"
    THEN IF Len(args) # 1 THEN Fatal("too many args")
         ELSE OrFields(instr, << parse_constant(args[1], addr, labs, 9) >>)
    ELSE IF op.format = "B2"
    THEN IF Len(args) # 2 THEN Fatal("too many args")
         ELSE OrFields(instr, << Shl(parse_reg(args[1]), 6),
                                 parse_num(args[2], 6, TRUE) >>)
    ELSE IF op.format = "L1"
    THEN IF Len(args) # 1 THEN Fatal("too many args")
         ELSE OrFields(instr, << Value(IF op.upper THEN Pow2(8) ELSE 0),
                                 parse_num(args[1], 8, TRUE) >>)
    ELSE IF Len(args) # 2 THEN Fatal("too many args")
         ELSE OrFields(instr, << Shl(parse_reg(args[1]), 6),
                                 Shl(parse_reg(args[2]), 3) >>)

\* what parse_instruction returns: [fatal, abort, msg, val]; abort is the failed
\* assert(op_idx != INVALID_OP)
EncodeResult(res) == [fatal |-> res.fatal, abort |-> FALSE, msg |-> res.msg, val |-> res.val]

\* lines 392-443, given what lookup_op returned
ParseInstructionAt(op_idx, args, labs, addr) ==
    IF op_idx = INVALID_OP
    THEN [fatal |-> FALSE, abort |-> TRUE, msg |-> "op_idx != INVALID_OP", val |-> 0]
    ELSE EncodeResult(EncodeFormat(OP[op_idx + 1], args, labs, addr,
                                   BitOr(0, OP[op_idx + 1].opcode * Pow2(9)) % Pow2(16)))

parse_instruction(op_str, args, labs, addr) ==
    ParseInstructionAt(lookup_op(op_str), args, labs, addr)

-----------------------------------------------------------------------------
(* The input files the model assembles: up to MaxLines of these lines      *)

SourceLines ==
    { "ORG 0\n", "ORG 1\n", "ORG 0X400\n", "l:\n", "BRR L\n", "EXIT:\n", "BRR EXIT\n",
      "3:\n", "BRR -3\n", "; L:\n", "ADD R1 R2 R3\n", "ADD R1 R2\n",
      "ADD R1 R2 R3 R4\n", "NOP" }

RECURSIVE Concat(_)
Concat(lines) == IF lines = <<>> THEN "" ELSE Head(lines) \o Concat(Tail(lines))

Sources == {Concat(lines) : lines \in UNION {[1..n -> SourceLines] : n \in 0..MaxLines}}

\* read_entire_file allocates st_size bytes and stores no terminating NUL, so
\* to_upper and the scan run on into whatever bytes follow the file in the
\* heap, up to the first NUL there: none, or some bytes
HeapTails == {"", "Q"}

-----------------------------------------------------------------------------
(* main                                                                    *)

Init ==
    /\ input_file \in Sources
    /\ buf = ""
    /\ file_pos = 1
    /\ in_comment = FALSE
    /\ next_addr = 0
    /\ labels = <<>>
    /\ instructions = <<>>
    /\ i = 0
    /\ rom_data = [a \in {} |-> 0]
    /\ oob = {}
    /\ pc = "start"
    /\ status = "running"
    /\ err = ""
    /\ line_num = 0
    /\ words = <<>>
    /\ output = <<>>
    /\ call = [fn |-> "main"]
    /\ ret = [fn |-> "none"]

\* lines 477-478: read_entire_file, to_upper
ReadFile ==
    /\ pc = "start"
    /\ status = "running"
    /\ \E tail \in HeapTails : buf' = to_upper(input_file \o tail)
    /\ pc' = "phase1"
    /\ UNCHANGED <<input_file, file_pos, in_comment, next_addr, labels, instructions,
                   i, rom_data, oob, status, err, line_num, words, output, call, ret>>

RECURSIVE CollectArgs(_, _, _)
RECURSIVE CollectNext(_, _)
\* lines 527-532: push words as operands until a comment word or a newline
\* word; Array::push asserts size < max_size
CollectArgs(word, pos, args) ==
    IF ~is_comment(word) /\ ~EqCStr(word, "\n")
    THEN IF ~(Len(args) < MAX_ARGS) THEN [abort |-> TRUE, args |-> args, pos |-> pos]
         ELSE CollectNext(get_word(pos), Append(args, word))
    ELSE [abort |-> FALSE, args |-> args, pos |-> pos]

\* line 531: word = get_word(&file_pos)
CollectNext(gw, args) == CollectArgs(gw.word, gw.pos, args)

\* main's variables after an iteration that only moved the cursor to pos
Same(pos) ==
    [file_pos |-> pos, in_comment |-> in_comment, next_addr |-> next_addr,
     labels |-> labels, instructions |-> instructions, status |-> "running", err |-> ""]

\* lines 501-502: ORG, given the next word and what parse_num made of it
OrgWith(pos, num) ==
    IF num.fatal THEN [Same(pos) EXCEPT !.status = "exit1", !.err = num.msg]
    ELSE [Same(pos) EXCEPT !.next_addr = num.val]

OrgDirective(gw) == OrgWith(gw.pos, parse_num(gw.word, 16, TRUE))

\* lines 509-516: the duplicate check, then labels.push
LabelDefinition(name, pos) ==
    IF \E k \in 1..Len(labels) : ~(~EqSub(labels[k].name, name))
    THEN [Same(pos) EXCEPT !.status = "exit1", !.err = "duplicate label"]
    ELSE IF ~(Len(labels) < MAX_LABELS)
    THEN [Same(pos) EXCEPT !.status = "abort"]
    ELSE [Same(pos) EXCEPT !.labels = Append(labels, [name |-> name, addr |-> next_addr])]

\* lines 523-536: the instruction, given its collected operands
InstructionWith(word, coll) ==
    IF coll.abort
    THEN [Same(coll.pos) EXCEPT !.status = "abort"]
    ELSE IF ~(Len(instructions) < MAX_INSTR)
    THEN [Same(coll.pos) EXCEPT !.status = "abort"]
    ELSE [Same(coll.pos) EXCEPT
             !.instructions = Append(instructions,
                                     [addr |-> next_addr, op |-> word, args |-> coll.args]),
             !.next_addr = next_addr + 2]

\* lines 491-538: the branches of the loop body, for the word read and the
\* cursor after it
Dispatch(word, pos) ==
    IF in_comment /\ EqCStr(word, "\n")
    THEN [Same(pos) EXCEPT !.in_comment = FALSE]
    ELSE IF is_comment(word)
    THEN [Same(pos) EXCEPT !.in_comment = TRUE]
    ELSE IF EqCStr(word, "ORG")
    THEN OrgDirective(get_word(pos))
    ELSE IF is_label(word)
    THEN LabelDefinition([data |-> word.data, len |-> word.len - 1], pos)
    ELSE IF lookup_op(word) # INVALID_OP
    THEN InstructionWith(word, CollectNext(get_word(pos), <<>>))
    ELSE Same(pos)

DispatchWord(gw) == Dispatch(gw.word, gw.pos)

\* one iteration of the loop of phase 1: main's variables after it
Phase1Iteration == DispatchWord(get_word(file_pos))

Phase1Assign(n) ==
    /\ file_pos' = n.file_pos
    /\ in_comment' = n.in_comment
    /\ next_addr' = n.next_addr
    /\ labels' = n.labels
    /\ instructions' = n.instructions
    /\ status' = n.status
    /\ err' = n.err

\* lines 487-539: one iteration of while (file_pos[0])
Phase1Step ==
    /\ pc = "phase1"
    /\ status = "running"
    /\ CharAt(file_pos) # NUL
    /\ Phase1Assign(Phase1Iteration)
    /\ UNCHANGED <<input_file, buf, i, rom_data, oob, pc, line_num, words, output, call, ret>>

\* the loop of phase 1 ends at the NUL; line 541 follows
Phase1End ==
    /\ pc = "phase1"
    /\ status = "running"
    /\ CharAt(file_pos) = NUL
    /\ pc' = "phase2"
    /\ i' = 0
    /\ UNCHANGED <<input_file, buf, file_pos, in_comment, next_addr, labels, instructions,
                   rom_data, oob, status, err, line_num, words, output, call, ret>>

\* StoreRom that keeps the byte already stored at a, if there is one
StoreRomOnce(rom, a, v) == IF a >= 0 /\ a < ROM_SIZE THEN rom @@ (a :> v) ELSE rom

\* rom_data[a] = v: inside the array the byte is stored; outside it the store
\* is to memory that is not rom_data
StoreRom(rom, a, v) == IF a >= 0 /\ a < ROM_SIZE THEN (a :> v) @@ rom ELSE rom

\* rom_data[a], for a inside the array
RomByte(a) == IF a \in DOMAIN rom_data THEN rom_data[a] ELSE 0

\* the indices among as that are outside rom_data
OutOfRom(as) == {a \in as : ~(a >= 0 /\ a < ROM_SIZE)}

\* lines 549-550: the two stores of the word, high byte first.  A store
\* outside rom_data is undefined: the run goes on, or the process crashes.
Phase2Store(addr, instr) ==
    /\ rom_data' = StoreRom(StoreRom(rom_data, addr, (instr \div Pow2(8)) % 256),
                            addr + 1, instr % 256)
    /\ oob' = oob \cup OutOfRom({addr, addr + 1})
    /\ words' = Append(words, instr)
    /\ i' = i + 1
    /\ err' = err
    /\ status' \in IF OutOfRom({addr, addr + 1}) = {} THEN {"running"}
                   ELSE {"running", "crash"}

\* lines 548-550, given what parse_instruction returned
Phase2With(addr, res) ==
    IF res.abort
    THEN /\ status' = "abort"
         /\ UNCHANGED <<i, rom_data, oob, err, words>>
    ELSE IF res.fatal
    THEN /\ status' = "exit1"
         /\ err' = res.msg
         /\ UNCHANGED <<i, rom_data, oob, words>>
    ELSE Phase2Store(addr, res.val)

Phase2Instr(ins) == Phase2With(ins.addr, parse_instruction(ins.op, ins.args, labels, ins.addr))

\* lines 543-552: one iteration of the loop of phase 2
Phase2Step ==
    /\ pc = "phase2"
    /\ status = "running"
    /\ i < Len(instructions)
    /\ Phase2Instr(instructions[i + 1])
    /\ UNCHANGED <<input_file, buf, file_pos, in_comment, next_addr, labels, instructions,
                   pc, line_num, output, call, ret>>

HexDigit(n) == SubSeq("0123456789ABCDEF", n + 1, n + 1)

\* "%02X%02X" of two bytes
HexLine(hi, lo) ==
    HexDigit(hi \div 16) \o HexDigit(hi % 16) \o HexDigit(lo \div 16) \o HexDigit(lo % 16)

\* WriteOutput with the file opened and written when phase 2 starts, before the
\* instructions are encoded
WriteOutputFirst ==
    /\ pc = "phase2"
    /\ status = "running"
    /\ output = <<>>
    /\ output' = [k \in 1..(ROM_SIZE \div 2) |->
                     HexLine(RomByte(2 * (k - 1)), RomByte(2 * (k - 1) + 1))]
    /\ UNCHANGED <<input_file, buf, file_pos, in_comment, next_addr, labels, instructions,
                   i, rom_data, oob, pc, status, err, line_num, words, call, ret>>

\* lines 557-562: the output file is opened and every word of rom_data written
WriteOutput ==
    /\ pc = "phase2"
    /\ status = "running"
    /\ ~(i < Len(instructions))
    /\ output' = [k \in 1..(ROM_SIZE \div 2) |->
                     HexLine(RomByte(2 * (k - 1)), RomByte(2 * (k - 1) + 1))]
    /\ pc' = "done"
    /\ status' = "exit0"
    /\ UNCHANGED <<input_file, buf, file_pos, in_comment, next_addr, labels, instructions,
                   i, rom_data, oob, err, line_num, words, call, ret>>

Next ==
    \/ ReadFile
    \/ Phase1Step
    \/ Phase1End
    \/ Phase2Step
    \/ WriteOutput

Spec == Init /\ [][Next]_vars

-----------------------------------------------------------------------------
(* Single calls of parse_num, parse_reg and parse_instruction: the         *)
(* arguments are drawn in the initial state, one action makes the call     *)

\* the bit widths of the ISA's fields and of ORG
Widths == {4, 6, 8, 9, 16}

\* the magnitudes of the literals: the small ones and, for every width, the
\* values around the ends of its signed and unsigned ranges
Magnitudes ==
    (0..MaxVal) \cup
    UNION {{Pow2(w - 1) - 1, Pow2(w - 1), Pow2(w) - 1, Pow2(w)} : w \in Widths}

RECURSIVE Digits(_, _)
\* the digits of v in the base, most significant first
Digits(v, base) ==
    IF v < base THEN HexDigit(v) ELSE Digits(v \div base, base) \o HexDigit(v % base)

\* the literal of a magnitude: sign, then 0X or 0B or nothing, then the digits
Literal(sign, base, mag) ==
    sign \o (IF base = 16 THEN "0X" ELSE IF base = 2 THEN "0B" ELSE "") \o Digits(mag, base)

\* words that are no literal
NotLiterals == {"EXIT", "ABORT", "L", "1A", "0XG", "0B2", "9999A", "A.B", ""}

NumCalls ==
    {[buf |-> Literal(sign, base, mag),
      call |-> [fn |-> "parse_num", bits |-> w, success_null |-> sn,
                literal |-> TRUE, sign |-> sign, base |-> base, mag |-> mag]] :
        sign \in {"", "+", "-"}, base \in {10, 16, 2}, mag \in Magnitudes,
        w \in Widths, sn \in BOOLEAN}
    \cup
    {[buf |-> str,
      call |-> [fn |-> "parse_num", bits |-> w, success_null |-> sn,
                literal |-> FALSE, sign |-> "", base |-> 10, mag |-> 0]] :
        str \in NotLiterals, w \in Widths, sn \in BOOLEAN}

RegTokens ==
    {"R0", "R1", "R2", "R3", "R4", "R5", "R6", "R7", "R8", "R9",
     "RA", "R.", "R:", "R", "R10", "X1", "11", ""}

RegCalls == {[buf |-> tok, call |-> [fn |-> "parse_reg"]] : tok \in RegTokens}

OperandTokens == {"R0", "R3", "R7", "R8", "R9", "RA", "5", "L"}

\* an instruction line after the definition of label L at address 4
InstrCalls ==
    {[buf |-> "L: " \o OP[m].mnemonic \o Concat([k \in 1..Len(ops) |-> " " \o ops[k]]) \o "\n",
      call |-> [fn |-> "parse_instruction", op_idx |-> m - 1, operands |-> ops, addr |-> 0]] :
        m \in 1..NUM_OPCODES,
        ops \in UNION {[1..n -> OperandTokens] : n \in 0..MAX_ARGS}}

InitUnit ==
    /\ input_file = ""
    /\ \E c \in NumCalls \cup RegCalls \cup InstrCalls : buf = c.buf /\ call = c.call
    /\ file_pos = 1
    /\ in_comment = FALSE
    /\ next_addr = 0
    /\ labels = IF call.fn = "parse_instruction"
                THEN <<[name |-> [data |-> 1, len |-> 1], addr |-> 4]>>
                ELSE <<>>
    /\ instructions = <<>>
    /\ i = 0
    /\ rom_data = [a \in {} |-> 0]
    /\ oob = {}
    /\ pc = "call"
    /\ status = "running"
    /\ err = ""
    /\ line_num = 0
    /\ words = <<>>
    /\ output = <<>>
    /\ ret = [fn |-> "none"]

Returns(r) ==
    /\ pc = "call"
    /\ pc' = "ret"
    /\ ret' = r
    /\ UNCHANGED <<input_file, buf, file_pos, in_comment, next_addr, labels, instructions,
                   i, rom_data, oob, status, err, line_num, words, output, call>>

\* the whole buffer as one SubString
Whole == [data |-> 1, len |-> Len(buf)]

CallParseNum ==
    /\ call.fn = "parse_num"
    /\ Returns([fn |-> "parse_num", res |-> parse_num(Whole, call.bits, call.success_null)])

CallParseReg ==
    /\ call.fn = "parse_reg"
    /\ Returns([fn |-> "parse_reg", res |-> parse_reg(Whole)])

\* the mnemonic is the word after "L:", and its operands are collected as main
\* collects them
CallWith(gw) ==
    Returns([fn |-> "parse_instruction",
             res |-> parse_instruction(gw.word, CollectNext(get_word(gw.pos), <<>>).args,
                                       labels, call.addr)])

CallParseInstruction ==
    /\ call.fn = "parse_instruction"
    /\ CallWith(get_word(3))

NextUnit ==
    \/ CallParseNum
    \/ CallParseReg
    \/ CallParseInstruction

SpecUnit == InitUnit /\ [][NextUnit]_vars

-----------------------------------------------------------------------------
(* Vocabulary of the properties                                            *)

DecChars == {"0", "1", "2", "3", "4", "5", "6", "7", "8", "9"}

HexChars == DecChars \cup {"A", "B", "C", "D", "E", "F"}

\* character k (from 1) of a string
CharOf(str, k) == SubSeq(str, k, k)

\* whether every character of str is in the set
AllIn(str, chars) == \A k \in 1..Len(str) : CharOf(str, k) \in chars

\* an unsigned word is "all digits" when, after a 0X or 0B prefix recognised by
\* its second character, every remaining character is a digit of the base
HasPrefix(str, letter) == Len(str) >= 2 /\ CharOf(str, 2) = letter

AllDigits(str) ==
    IF HasPrefix(str, "X") THEN AllIn(SubSeq(str, 3, Len(str)), HexChars)
    ELSE IF HasPrefix(str, "B") THEN AllIn(SubSeq(str, 3, Len(str)), {"0", "1"})
    ELSE AllIn(str, DecChars)

RECURSIVE DecimalValue(_)
\* the value of a string of decimal digits
DecimalValue(str) ==
    IF Len(str) = 0 THEN 0
    ELSE 10 * DecimalValue(SubSeq(str, 1, Len(str) - 1))
         + (CHOOSE d \in 0..9 : HexDigit(d) = CharOf(str, Len(str)))

\* x / 2 with the quotient truncated toward zero
HalfTowardZero(x) == IF x >= 0 THEN x \div 2 ELSE 0 - ((0 - x) \div 2)

\* the table entry of a recorded instruction
OpOf(ins) == OP[lookup_op(ins.op) + 1]

\* the instructions phase 2 has encoded are instructions[1..Len(words)]
Encoded == 1..Len(words)

\* instruction ins is a B1 instruction whose one operand is the name of label lab
BranchesTo(ins, lab) ==
    /\ OpOf(ins).format = "B1"
    /\ Len(ins.args) = 1
    /\ Text(ins.args[1]) = Text(lab.name)

\* position p of the buffer is inside a comment: after a ';' of its line
InCommentText(p) ==
    \E q \in 1..(p - 1) : CharAt(q) = ";" /\ \A r \in q..(p - 1) : CharAt(r) # "\n"

\* the width of the immediate field that ends the word of a format, 0 if none
ImmWidth(format) ==
    IF format = "A2" THEN 4
    ELSE IF format = "B2" THEN 6
    ELSE IF format = "L1" THEN 8
    ELSE IF format = "B1" THEN 9
    ELSE 0

\* ins has the operand count of its format, and its last operand is a string
\* of decimal digits written after a '-'
HasNegativeImmediate(ins) ==
    /\ ImmWidth(OpOf(ins).format) > 0
    /\ Len(ins.args) = (IF OpOf(ins).format \in {"A2", "B2"} THEN 2 ELSE 1)
    /\ Text(ins.args[Len(ins.args)]) # ""
    /\ AllIn(Text(ins.args[Len(ins.args)]), DecChars)
    /\ CharAt(ins.args[Len(ins.args)].data - 1) = "-"

-----------------------------------------------------------------------------
(* Properties of the driver, checked under Spec                            *)

\* C1: every instruction phase 2 has written has an even address addr with
\* addr+1 < ROM_SIZE, and no store went outside rom_data.
C1_WritesInsideRom ==
    /\ oob = {}
    /\ \A k \in Encoded :
          instructions[k].addr % 2 = 0 /\ instructions[k].addr + 1 < ROM_SIZE

\* C2, as stated: for an encoded B1 instruction at address a whose operand
\* names a label defined at t, the low 9 bits of the word are ((t - a) / 2) mod 512.
C2_AsStated ==
    \A k \in Encoded : \A j \in 1..Len(labels) :
        BranchesTo(instructions[k], labels[j]) =>
            words[k] % 512 = HalfTowardZero(labels[j].addr - instructions[k].addr) % 512

\* C2, amended: the same, for an operand that is not all digits (a word that is
\* all digits is a number, whatever labels there are); the quotient is
\* truncated toward zero.
C2_LabelDisplacement ==
    \A k \in Encoded : \A j \in 1..Len(labels) :
        (BranchesTo(instructions[k], labels[j]) /\ ~AllDigits(Text(instructions[k].args[1]))) =>
            words[k] % 512 = HalfTowardZero(labels[j].addr - instructions[k].addr) % 512

\* a branch back to a label has been encoded: the displacement is negative
C2_Witness ==
    \E k \in Encoded : \E j \in 1..Len(labels) :
        /\ BranchesTo(instructions[k], labels[j])
        /\ ~AllDigits(Text(instructions[k].args[1]))
        /\ labels[j].addr < instructions[k].addr
        /\ words[k] % 512 >= 256

\* C4: when phase 2 ends in a fatal error at a B1 instruction whose operand is
\* not all digits and names a defined label, the error is not "malformed
\* constant", and it is "argument needs too many bits" only if the displacement
\* to the label does not fit.
C4_LabelOperandNotFatal ==
    (/\ pc = "phase2"
     /\ status = "exit1"
     /\ \E j \in 1..Len(labels) :
            /\ BranchesTo(instructions[i + 1], labels[j])
            /\ ~AllDigits(Text(instructions[i + 1].args[1])))
    => /\ err # "malformed constant"
       /\ err = "argument needs too many bits" =>
            \E j \in 1..Len(labels) :
                /\ BranchesTo(instructions[i + 1], labels[j])
                /\ ~(HalfTowardZero(labels[j].addr - instructions[i + 1].addr) \in (-512)..511)

\* C7: an encoded instruction whose immediate operand is written '-' and the
\* decimal digits of m has the field value (-m) mod 2^w.
C7_NegativeImmediate ==
    \A k \in Encoded :
        HasNegativeImmediate(instructions[k]) =>
            words[k] % Pow2(ImmWidth(OpOf(instructions[k]).format))
              = (0 - DecimalValue(Text(instructions[k].args[Len(instructions[k].args)])))
                  % Pow2(ImmWidth(OpOf(instructions[k]).format))

\* C8: no label, no mnemonic and no operand is taken from the text of a comment.
C8_CommentsIgnored ==
    /\ \A j \in 1..Len(labels) : ~InCommentText(labels[j].name.data)
    /\ \A k \in 1..Len(instructions) :
          /\ ~InCommentText(instructions[k].op.data)
          /\ \A a \in 1..Len(instructions[k].args) :
                ~InCommentText(instructions[k].args[a].data)

\* C10: every label of the symbol table has an even address in [0, ROM_SIZE).
C10_LabelAddresses ==
    \A j \in 1..Len(labels) :
        labels[j].addr % 2 = 0 /\ labels[j].addr >= 0 /\ labels[j].addr < ROM_SIZE

-----------------------------------------------------------------------------
(* Properties of the parsers, checked under SpecUnit                       *)

\* parse_instruction has returned a word
ReturnedWord ==
    /\ pc = "ret"
    /\ ret.fn = "parse_instruction"
    /\ ~ret.res.fatal
    /\ ~ret.res.abort

\* the positions (operand number, shift) of the register fields of a format
RegFields(format) ==
    IF format = "A1" THEN {<<1, 6>>, <<2, 3>>, <<3, 0>>}
    ELSE IF format = "L2" THEN {<<1, 6>>, <<2, 3>>}
    ELSE IF format \in {"A2", "A3", "B2"} THEN {<<1, 6>>}
    ELSE {}

\* a register operand of the register syntax: R and one decimal digit
IsRegToken(tok) == Len(tok) = 2 /\ CharOf(tok, 1) = "R" /\ CharOf(tok, 2) \in DecChars

\* the digit of a register operand
RegDigit(tok) == CHOOSE d \in 0..9 : HexDigit(d) = CharOf(tok, 2)

\* C3: when parse_instruction returns a word, bits 15..9 of it are the opcode
\* of the mnemonic, and every register field that can hold the digit of its
\* operand (0..7) holds it: no field alters the opcode or another field.
C3_FieldsDoNotOverlap ==
    ReturnedWord =>
        /\ ret.res.val \div 512 = OP[call.op_idx + 1].opcode
        /\ \A f \in RegFields(OP[call.op_idx + 1].format) :
              (IsRegToken(call.operands[f[1]]) /\ RegDigit(call.operands[f[1]]) <= 7) =>
                  (ret.res.val \div Pow2(f[2])) % 8 = RegDigit(call.operands[f[1]])

\* parse_num has returned, or ended in a fatal error, for a literal without '-'
ParsedNonNegative ==
    /\ pc = "ret"
    /\ ret.fn = "parse_num"
    /\ call.literal
    /\ call.sign # "-"

LiteralValue == IF call.sign = "-" THEN 0 - call.mag ELSE call.mag

\* r, a value of w bits, read as a two's-complement number
SignExtend(r, w) == IF r >= Pow2(w - 1) THEN r - Pow2(w) ELSE r

\* parse_num has been called with a literal whose value is in the signed range
\* of the width
ParsedInSignedRange ==
    /\ pc = "ret"
    /\ ret.fn = "parse_num"
    /\ call.literal
    /\ LiteralValue >= 0 - Pow2(call.bits - 1)
    /\ LiteralValue <= Pow2(call.bits - 1) - 1

\* C6: a literal whose value v is in the signed range of w bits is accepted
\* with a result r, 0 <= r < 2^w, whose sign extension from w bits is v.
C6_RoundTrip ==
    ParsedInSignedRange =>
        /\ ~ret.res.fatal
        /\ ret.res.val >= 0
        /\ ret.res.val < Pow2(call.bits)
        /\ SignExtend(ret.res.val, call.bits) = LiteralValue

\* the most negative value of a width has been parsed
C6_Witness ==
    /\ ParsedInSignedRange
    /\ LiteralValue = 0 - Pow2(call.bits - 1)
    /\ ret.res.val = Pow2(call.bits - 1)

\* C9: parse_reg returns a register number only for R and one decimal digit;
\* for every other token it ends in the fatal error "not a valid register".
C9_RegisterSyntax ==
    (pc = "ret" /\ ret.fn = "parse_reg") =>
        IF IsRegToken(buf)
        THEN ~ret.res.fatal /\ ret.res.val = RegDigit(buf)
        ELSE ret.res.fatal /\ ret.res.msg = "not a valid register"

-----------------------------------------------------------------------------
(* Properties of the symbol table, checked under Spec                      *)

\* no two entries of the symbol table have the same name
NoTwoSameName ==
    \A j \in 1..Len(labels) : \A k \in 1..Len(labels) :
        Text(labels[j].name) = Text(labels[k].name) => j = k

\* word is a label-definition token whose name, without the ':', is the name
\* of a label of the symbol table
DefinesAgain(word) ==
    /\ word.len > 0
    /\ CharOf(buf, word.data + word.len - 1) = ":"
    /\ \E k \in 1..Len(labels) :
          Text(labels[k].name) = SubSeq(buf, word.data, word.data + word.len - 2)

\* the loop of phase 1 is about to read a token
AboutToRead == pc = "phase1" /\ status = "running" /\ CharAt(file_pos) # NUL

\* a step keeps every entry of the symbol table where it is, and a step that
\* reads the definition of a defined label ends in the duplicate-label error
WriteOnceStep ==
    /\ Len(labels') >= Len(labels)
    /\ SubSeq(labels', 1, Len(labels)) = labels
    /\ (AboutToRead /\ DefinesAgain(get_word(file_pos).word)) =>
          (status' = "exit1" /\ err' = "duplicate label" /\ labels' = labels)

\* C11: labels are write-once: the symbol table never holds two entries of the
\* same name, no step changes or removes an entry, and the definition of an
\* already defined label ends assembly with the duplicate-label fatal error,
\* whatever the cursor is at the second definition.
C11_LabelsWriteOnce == [](NoTwoSameName) /\ [][WriteOnceStep]_vars

\* a second definition of a label, at a cursor that differs from the label's
\* address, has ended in the duplicate-label error
C11_Witness ==
    /\ status = "exit1"
    /\ err = "duplicate label"
    /\ CharAt(file_pos - 1) = ":"
    /\ \E k \in 1..Len(labels) :
          /\ labels[k].addr # next_addr
          /\ SubSeq(buf, file_pos - 1 - labels[k].name.len, file_pos - 2) = Text(labels[k].name)

-----------------------------------------------------------------------------
(* Properties of the operand count, checked under Spec                     *)

\* the number of operands a format fixes
ArgCount(format) ==
    IF format = "A0" THEN 0
    ELSE IF format = "A1" THEN 3
    ELSE IF format \in {"A2", "B2", "L2"} THEN 2
    ELSE 1

\* the instruction has the number of operands of its format
RightCount(ins) == Len(ins.args) = ArgCount(OpOf(ins).format)

\* assembly has ended at instruction i+1 of phase 2 without a word for it
EndedAtInstruction ==
    /\ pc = "phase2"
    /\ status \in {"exit1", "abort"}
    /\ i < Len(instructions)

\* C12: a word is produced only for an instruction with the operand count of
\* its format; assembly that ends at an instruction with another count ends
\* with the operand-count fatal error and no word for it; and an instruction
\* line with more operand tokens than an instruction can hold ends the same
\* way, not in a failed assertion while the operands are collected.
C12_OperandCount ==
    /\ \A k \in Encoded : RightCount(instructions[k])
    /\ (EndedAtInstruction /\ ~RightCount(instructions[i + 1])) =>
          (status = "exit1" /\ err = "too many args" /\ Len(words) = i)
    /\ ~(pc = "phase1" /\ status = "abort" /\ CharAt(file_pos) # NUL)

-----------------------------------------------------------------------------
(* Properties of the output file, checked under Spec                       *)

\* the run has ended in a fatal error or a failed assertion
Failed == status \in {"exit1", "abort"}

\* the output file is written only by a step taken when phase 2 has encoded
\* and stored every recorded instruction
OutputAfterPhase2 ==
    output' # output =>
        /\ pc = "phase2"
        /\ status = "running"
        /\ i = Len(instructions)
        /\ Len(words) = Len(instructions)
        /\ Len(output') = ROM_SIZE \div 2

\* C13: a run that ends in a fatal error never has an output file; the output
\* is written only after phase 2 has encoded and stored every instruction,
\* and it has all its 512 lines or none.
C13_NoOutputOnFailure ==
    /\ [](Failed => output = <<>>)
    /\ [](output = <<>> \/ Len(output) = ROM_SIZE \div 2)
    /\ [][OutputAfterPhase2]_vars

\* phase 2 has ended in a fatal error after it stored a word, with no output
C13_Witness ==
    /\ pc = "phase2"
    /\ status = "exit1"
    /\ Len(words) >= 1
    /\ rom_data # <<>>
    /\ output = <<>>

-----------------------------------------------------------------------------
(* Properties of the error messages, checked under Spec                    *)

\* the 1-based line of position p of the buffer: one plus the newlines before it
LineOf(p) == 1 + Cardinality({q \in 1..(p - 1) : CharAt(q) = "\n"})

\* a position in the token a fatal error is about: in phase 1 the last
\* character of the token just read, in phase 2 the mnemonic of the instruction
\* that was being encoded
OffendingPos == IF pc = "phase1" THEN file_pos - 1 ELSE instructions[i + 1].op.data

\* C14: when a fatal error has been reported, the line number of the message
\* is the 1-based line of the offending token.
C14_LineNumber ==
    (status = "exit1" /\ pc \in {"phase1", "phase2"}) => line_num = LineOf(OffendingPos)

-----------------------------------------------------------------------------
(* Properties of the ROM image, checked under Spec                         *)

\* phase 2 has encoded and stored every recorded instruction
Phase2Complete ==
    /\ pc \in {"phase2", "done"}
    /\ status \in {"running", "exit0"}
    /\ i = Len(instructions)
    /\ Len(words) = Len(instructions)

\* every recorded instruction has an even address below ROM_SIZE
AllInsideRom ==
    \A k \in 1..Len(instructions) :
        instructions[k].addr % 2 = 0 /\ instructions[k].addr < ROM_SIZE

\* the instructions whose word covers byte a
Covering(a) == {k \in 1..Len(instructions) : a \in {instructions[k].addr, instructions[k].addr + 1}}

\* the last instruction of a set, in list order
Last(ks) == CHOOSE k \in ks : \A j \in ks : j <= k

\* byte a of the word of instruction k: the high byte at its address, the low
\* byte after it
ByteOf(k, a) == IF a = instructions[k].addr THEN words[k] \div 256 ELSE words[k] % 256

\* what the instruction list makes of byte a
ExpectedByte(a) == IF Covering(a) = {} THEN 0 ELSE ByteOf(Last(Covering(a)), a)

\* the bytes something was stored to, and the bytes the instructions cover
TouchedBytes ==
    DOMAIN rom_data \cup
    UNION {{instructions[k].addr, instructions[k].addr + 1} : k \in 1..Len(instructions)}

\* C15: after phase 2, for a program whose instruction addresses are all even
\* and below ROM_SIZE, every byte of the ROM image that an instruction covers
\* holds the high or low byte of the word of the last instruction at that
\* address, and every other byte is zero.
C15_RomImage ==
    (Phase2Complete /\ AllInsideRom) =>
        /\ \A a \in TouchedBytes : RomByte(a) = ExpectedByte(a)
        /\ \A a \in (0..(ROM_SIZE - 1)) \ TouchedBytes : RomByte(a) = 0

\* an instruction placed by ORG at the address of an earlier one has
\* overwritten its word with a different one
C15_Witness ==
    /\ Phase2Complete
    /\ AllInsideRom
    /\ \E j \in 1..Len(instructions) : \E k \in 1..Len(instructions) :
          /\ j < k
          /\ instructions[j].addr = instructions[k].addr
          /\ words[j] # words[k]
          /\ RomByte(instructions[k].addr) * 256 + RomByte(instructions[k].addr + 1) = words[k]

-----------------------------------------------------------------------------
(* Properties of the end of input, checked under Spec                      *)

\* C16: phase 1 ends normally at the end of the input: operand collection
\* stops there, so no assertion fails with the cursor at the end of the
\* buffer, and no recorded instruction has a zero-length operand.
C16_EndOfInput ==
    /\ ~(pc = "phase1" /\ status = "abort" /\ CharAt(file_pos) = NUL)
    /\ \A k \in 1..Len(instructions) : \A a \in 1..Len(instructions[k].args) :
          instructions[k].args[a].len > 0

=============================================================================
